---- MODULE Spec2Model ----
(***************************************************************************)
(* A model of the two scrapers of MacXcodeMatch:                           *)
(*   macos_compat_scraper.py    (Wikipedia hardware-compatibility table)   *)
(*   xcode_releases_scraper.py  (Apple Xcode releases table)               *)
(*                                                                         *)
(* Text is a sequence of one-character tokens.  Three characters outside   *)
(* ASCII are written as the tokens "ndash" (U+2013), "mdash" (U+2014) and  *)
(* "nbsp" (U+00A0).  Positions are Python's: 0 .. len(s), s[a:b] is        *)
(* SubSeq(s, a+1, b).  None is written None (-1) for an index and          *)
(* NoMatch for a regular-expression match.                                 *)
(***************************************************************************)
EXTENDS Integers, Sequences, FiniteSets, TLC

VARIABLES pc, soup, table, idx, rows, out, rowno, arg, ret, err

vars == <<pc, soup, table, idx, rows, out, rowno, arg, ret, err>>

None == -1

(***************************************************************************)
(* Characters and Python's str methods                                     *)
(***************************************************************************)
UpperLetters == <<"A","B","C","D","E","F","G","H","I","J","K","L","M",
                  "N","O","P","Q","R","S","T","U","V","W","X","Y","Z">>

LowerLetters == <<"a","b","c","d","e","f","g","h","i","j","k","l","m",
                  "n","o","p","q","r","s","t","u","v","w","x","y","z">>

Digits == <<"0","1","2","3","4","5","6","7","8","9">>

Range(f) == {f[i] : i \in DOMAIN f}

\* \d
Digit == Range(Digits)

\* \w
Word == Range(UpperLetters) \cup Range(LowerLetters) \cup Digit \cup {"_"}

\* \s, and the characters str.strip() and str.split() treat as whitespace
White == {" ", "nbsp", "\t", "\n"}

\* the class [–—-] of normalize_os
Dashes == {"ndash", "mdash", "-"}

\* str.lower() of one character
LowerChar(c) ==
  IF \E i \in DOMAIN UpperLetters : UpperLetters[i] = c
  THEN LowerLetters[CHOOSE i \in DOMAIN UpperLetters : UpperLetters[i] = c]
  ELSE c

\* str.upper() of one character
UpperChar(c) ==
  IF \E i \in DOMAIN LowerLetters : LowerLetters[i] = c
  THEN UpperLetters[CHOOSE i \in DOMAIN LowerLetters : LowerLetters[i] = c]
  ELSE c

\* str.lower()
Lower(s) == [i \in DOMAIN s |-> LowerChar(s[i])]

\* int() of one decimal digit
DigitVal(c) == (CHOOSE i \in DOMAIN Digits : Digits[i] = c) - 1

\* int() of a string of decimal digits
RECURSIVE ToInt(_)
ToInt(s) == IF s = <<>> THEN 0 ELSE 10 * ToInt(SubSeq(s, 1, Len(s) - 1)) + DigitVal(s[Len(s)])

\* s[a:b]
Slice(s, a, b) == SubSeq(s, a + 1, b)

SetMin(S) == CHOOSE x \in S : \A y \in S : x <= y

SetMax(S) == CHOOSE x \in S : \A y \in S : x >= y

\* the elements of a finite set of numbers in increasing order
Sorted(S) == [k \in 1 .. Cardinality(S) |-> CHOOSE x \in S : Cardinality({y \in S : y < x}) = k - 1]

\* str.strip(chars); StripWS is str.strip()
Strip(s, cs) ==
  LET keep == {k \in DOMAIN s : s[k] \notin cs}
  IN IF keep = {} THEN <<>> ELSE SubSeq(s, SetMin(keep), SetMax(keep))

StripWS(s) == Strip(s, White)

\* s.startswith(p)
StartsWith(s, p) == Len(p) <= Len(s) /\ SubSeq(s, 1, Len(p)) = p

\* p in s
Contains(s, p) == \E k \in 0 .. (Len(s) - Len(p)) : Slice(s, k, k + Len(p)) = p

\* s.split(c) for a one-character separator: empty pieces are kept
Split(s, c) ==
  LET seps == Sorted({k \in DOMAIN s : s[k] = c})
      from(j) == IF j = 1 THEN 1 ELSE seps[j - 1] + 1
      to(j) == IF j > Len(seps) THEN Len(s) ELSE seps[j] - 1
  IN [j \in 1 .. Len(seps) + 1 |-> SubSeq(s, from(j), to(j))]

\* s.split(): pieces between runs of whitespace, never empty
SplitWS(s) ==
  LET starts == Sorted({k \in DOMAIN s : s[k] \notin White /\ (k = 1 \/ s[k - 1] \in White)})
      stop(k) == SetMin({e \in k .. Len(s) : e = Len(s) \/ s[e + 1] \in White})
  IN [j \in 1 .. Len(starts) |-> SubSeq(s, starts[j], stop(starts[j]))]

\* sep.join(parts)
RECURSIVE Join(_, _)
Join(sep, parts) ==
  IF parts = <<>> THEN <<>>
  ELSE IF Len(parts) = 1 THEN parts[1]
  ELSE parts[1] \o sep \o Join(sep, Tail(parts))

\* s.replace(old, new), old not empty
RECURSIVE Replace(_, _, _)
Replace(s, old, new) ==
  LET hits == {k \in 0 .. (Len(s) - Len(old)) : Slice(s, k, k + Len(old)) = old}
      k == SetMin(hits)
  IN IF hits = {} THEN s
     ELSE Slice(s, 0, k) \o new \o Replace(Slice(s, k + Len(old), Len(s)), old, new)

\* [f(x) for x in xs if keep(x)] for the strip-and-keep-non-empty comprehensions
RECURSIVE StripNonEmpty(_, _)
StripNonEmpty(parts, after) ==
  IF parts = <<>> THEN <<>>
  ELSE (IF StripWS(Head(parts)) # <<>>
        THEN <<Strip(StripWS(Head(parts)), after)>> ELSE <<>>)
       \o StripNonEmpty(Tail(parts), after)

(***************************************************************************)
(* Python's re: a backtracking matcher.  M(r, s, m) is the sequence of     *)
(* match states r can end in from state m, in the order the backtracking   *)
(* engine tries them; the match re reports is the first one.               *)
(***************************************************************************)
Chr(S) == [t |-> "chr", set |-> S]

Cat(rs) == [t |-> "cat", rs |-> rs]

Alt(rs) == [t |-> "alt", rs |-> rs]

\* greedy r{min,max}; max = None is unbounded
Rep(r, min, max) == [t |-> "rep", r |-> r, min |-> min, max |-> max]

Star(r) == Rep(r, 0, None)

Plus(r) == Rep(r, 1, None)

Opt(r) == Rep(r, 0, 1)

\* capturing group number n
Grp(n, r) == [t |-> "grp", n |-> n, r |-> r]

\* \b
WordB == [t |-> "wb"]

\* a literal string; with re.IGNORECASE each letter matches in both cases
Lit(s, ignorecase) ==
  Cat([i \in DOMAIN s |->
        Chr(IF ignorecase THEN {LowerChar(s[i]), UpperChar(s[i])} ELSE {s[i]})])

NoGroups == <<<<None, None>>, <<None, None>>>>

AtWordB(s, p) ==
  LET before == p > 0 /\ s[p] \in Word
      after == p < Len(s) /\ s[p + 1] \in Word
  IN before # after

Dec(n) == IF n = None THEN None ELSE n - 1

Progress(ms, p) == SelectSeq(ms, LAMBDA m : m.pos > p)

SetGroup(ms, n, p) == [i \in DOMAIN ms |-> [ms[i] EXCEPT !.g[n] = <<p, ms[i].pos>>]]

RECURSIVE M(_, _, _), MAll(_, _, _), MAlt(_, _, _)
MAll(r, s, ms) == IF ms = <<>> THEN <<>> ELSE M(r, s, Head(ms)) \o MAll(r, s, Tail(ms))

MAlt(rs, s, m) == IF rs = <<>> THEN <<>> ELSE M(Head(rs), s, m) \o MAlt(Tail(rs), s, m)

M(r, s, m) ==
  CASE r.t = "chr" ->
         IF m.pos < Len(s) /\ s[m.pos + 1] \in r.set
         THEN <<[m EXCEPT !.pos = @ + 1]>> ELSE <<>>
    [] r.t = "wb" -> IF AtWordB(s, m.pos) THEN <<m>> ELSE <<>>
    [] r.t = "cat" ->
         IF r.rs = <<>> THEN <<m>>
         ELSE MAll(Cat(Tail(r.rs)), s, M(Head(r.rs), s, m))
    [] r.t = "alt" -> MAlt(r.rs, s, m)
    [] r.t = "grp" -> SetGroup(M(r.r, s, m), r.n, m.pos)
    [] r.t = "rep" ->
         (IF r.max = 0 THEN <<>>
          ELSE MAll(Rep(r.r, IF r.min > 0 THEN r.min - 1 ELSE 0, Dec(r.max)), s,
                    Progress(M(r.r, s, m), m.pos)))
         \o (IF r.min = 0 THEN <<m>> ELSE <<>>)

NoMatch == [ok |-> FALSE, start |-> 0, end |-> 0, g |-> NoGroups]

\* pattern.match(s, p): the match starting at p, or None
MatchAt(r, s, p) ==
  LET ms == M(r, s, [pos |-> p, g |-> NoGroups])
  IN IF ms = <<>> THEN NoMatch
     ELSE [ok |-> TRUE, start |-> p, end |-> ms[1].pos, g |-> ms[1].g]

\* re.search(r, s[from:]) in positions of s: the leftmost match, or None
\* (the start positions lo .. hi are tried in increasing order, by halves)
RECURSIVE SearchIn(_, _, _, _)
SearchIn(r, s, lo, hi) ==
  IF lo > hi THEN NoMatch
  ELSE IF lo = hi THEN MatchAt(r, s, lo)
  ELSE LET mid == (lo + hi) \div 2
           left == SearchIn(r, s, lo, mid)
       IN IF left.ok THEN left ELSE SearchIn(r, s, mid + 1, hi)

SearchFrom(r, s, p) == SearchIn(r, s, p, Len(s))

Search(r, s) == SearchFrom(r, s, 0)

\* re.fullmatch(r, s): the first way of matching that ends at len(s)
FullMatch(r, s) ==
  LET ms == SelectSeq(M(r, s, [pos |-> 0, g |-> NoGroups]), LAMBDA m : m.pos = Len(s))
  IN IF ms = <<>> THEN NoMatch
     ELSE [ok |-> TRUE, start |-> 0, end |-> Len(s), g |-> ms[1].g]

\* m.group(n); the empty string stands for a group that took no part
Group(s, m, n) == IF m.g[n][1] = None THEN <<>> ELSE Slice(s, m.g[n][1], m.g[n][2])

\* the non-overlapping matches of re.findall / re.finditer, left to right
\* (no pattern of the program matches the empty string)
RECURSIVE FindAllFrom(_, _, _)
FindAllFrom(r, s, p) ==
  LET m == SearchFrom(r, s, p)
  IN IF m.ok THEN <<m>> \o FindAllFrom(r, s, m.end) ELSE <<>>

FindAll(r, s) == FindAllFrom(r, s, 0)

\* re.sub(r, rep, s)
RECURSIVE SubFrom(_, _, _, _)
SubFrom(r, rep, s, p) ==
  LET m == SearchFrom(r, s, p)
  IN IF m.ok THEN Slice(s, p, m.start) \o rep \o SubFrom(r, rep, s, m.end)
     ELSE Slice(s, p, Len(s))

Sub(r, rep, s) == SubFrom(r, rep, s, 0)

(***************************************************************************)
(* macos_compat_scraper.py: the text functions                             *)
(***************************************************************************)
\* \d+(?:\.\d+)*
VersionPat == Cat(<<Plus(Chr(Digit)), Star(Cat(<<Chr({"."}), Plus(Chr(Digit))>>))>>)

\* \d+(?:\.\d+)*\s*[–—-]\s*\d+(?:\.\d+)*
VersionRangePat ==
  Cat(<<VersionPat, Star(Chr(White)), Chr(Dashes), Star(Chr(White)), VersionPat>>)

\* \b(Laptops?|Desktops?)\s*:\s*, re.IGNORECASE
LABEL_PAT ==
  Cat(<<WordB,
        Grp(1, Alt(<<Cat(<<Lit(<<"L","a","p","t","o","p">>, TRUE), Opt(Chr({"s", "S"}))>>),
                     Cat(<<Lit(<<"D","e","s","k","t","o","p">>, TRUE), Opt(Chr({"s", "S"}))>>)>>)),
        Star(Chr(White)), Chr({":"}), Star(Chr(White))>>)

\* the while loop of split_category_labels
RECURSIVE split_category_labels_loop(_, _)
split_category_labels_loop(s, parts) ==
  LET m == Search(LABEL_PAT, s)
      left == Strip(Slice(s, 0, m.start), {" ", ","})
  IN IF ~m.ok
     THEN (IF s # <<>> THEN Append(parts, Strip(s, {" ", ","})) ELSE parts)
     ELSE split_category_labels_loop(StripWS(Slice(s, m.end, Len(s))),
                                     IF left # <<>> THEN Append(parts, left) ELSE parts)

split_category_labels(text) == split_category_labels_loop(StripWS(text), <<>>)

\* sub.lower() in {"and"}
IsJunk(sub) == Lower(sub) \in {<<"a","n","d">>}

\* the innermost loop of clean_supported_systems, over the comma pieces of one chunk
RECURSIVE clean_subs(_)
clean_subs(subs) ==
  IF subs = <<>> THEN <<>>
  ELSE LET sub == Head(subs)
           norm == Strip(Sub(Rep(Chr(White), 2, None), <<" ">>, sub), {" ", ","})
       IN (IF IsJunk(sub) \/ norm = <<>> THEN <<>> ELSE <<norm>>) \o clean_subs(Tail(subs))

\* for ch in chunks
RECURSIVE clean_chunks(_)
clean_chunks(chunks) ==
  IF chunks = <<>> THEN <<>>
  ELSE clean_subs(StripNonEmpty(Split(Head(chunks), ","), {})) \o clean_chunks(Tail(chunks))

\* for item in raw_items
RECURSIVE clean_items(_)
clean_items(raw_items) ==
  IF raw_items = <<>> THEN <<>>
  ELSE clean_chunks(split_category_labels(Head(raw_items))) \o clean_items(Tail(raw_items))

\* a de-duplication that keeps the last occurrence of each string instead of the first
RECURSIVE DedupKeepLast(_, _)
DedupKeepLast(xs, uniq) ==
  IF xs = <<>> THEN uniq
  ELSE DedupKeepLast(Tail(xs),
         IF Head(xs) \in Range(Tail(xs)) THEN uniq ELSE Append(uniq, Head(xs)))

\* De-duplicate while preserving order
RECURSIVE Dedup(_, _)
Dedup(xs, uniq) ==
  IF xs = <<>> THEN uniq
  ELSE Dedup(Tail(xs), IF Head(xs) \in Range(uniq) THEN uniq ELSE Append(uniq, Head(xs)))

clean_supported_systems(raw_items) == Dedup(clean_items(raw_items), <<>>)

normalize_os(os_text) ==
  LET s == StripWS(os_text)
      m1 == Search(Cat(<<WordB, Grp(1, VersionRangePat), WordB>>), s)
      m2 == Search(Cat(<<WordB, Grp(1, VersionPat), WordB>>), s)
  IN IF FullMatch(Cat(<<VersionPat, Opt(Cat(<<Star(Chr(White)), Chr(Dashes),
                                              Star(Chr(White)), VersionPat>>))>>), s).ok
     THEN s
     ELSE IF m1.ok THEN Group(s, m1, 1)
     ELSE IF m2.ok THEN Group(s, m2, 1)
     ELSE s

\* the threshold with 10.8 itself left out
should_include_os_after_10_8(os_str) ==
  LET m == Search(Cat(<<Grp(1, Plus(Chr(Digit))),
                        Opt(Cat(<<Chr({"."}), Grp(2, Plus(Chr(Digit)))>>))>>), os_str)
      major == ToInt(Group(os_str, m, 1))
      minor == IF Group(os_str, m, 2) # <<>> THEN ToInt(Group(os_str, m, 2)) ELSE 0
  IN IF ~m.ok THEN FALSE
     ELSE major >= 11 \/ (major = 10 /\ minor > 8)

should_include_os(os_str) ==
  LET m == Search(Cat(<<Grp(1, Plus(Chr(Digit))),
                        Opt(Cat(<<Chr({"."}), Grp(2, Plus(Chr(Digit)))>>))>>), os_str)
      major == ToInt(Group(os_str, m, 1))
      minor == IF Group(os_str, m, 2) # <<>> THEN ToInt(Group(os_str, m, 2)) ELSE 0
  IN IF ~m.ok THEN FALSE
     ELSE major >= 11 \/ (major = 10 /\ minor >= 8)

(***************************************************************************)
(* xcode_releases_scraper.py: the text functions                           *)
(***************************************************************************)
clean_version_text(text) ==
  LET t1 == Replace(Replace(text, <<"&","n","b","s","p",";">>, <<" ">>), <<"&","n","b","s","p">>, <<" ">>)
      t2 == Replace(Replace(t1, <<"nbsp">>, <<" ">>), <<"nbsp">>, <<" ">>)
      t3 == Replace(Replace(Replace(Replace(t2, <<"ndash">>, <<"-">>), <<"mdash">>, <<"-">>),
                            <<"ndash">>, <<"-">>), <<"mdash">>, <<"-">>)
      t4 == Sub(Plus(Chr(White)), <<" ">>, t3)
  IN StripWS(t4)

\* \d+\.(?:\d+|x)(?:\.\d+)?
VersionOrXPat ==
  Cat(<<Plus(Chr(Digit)), Chr({"."}), Alt(<<Plus(Chr(Digit)), Chr({"x"})>>),
        Opt(Cat(<<Chr({"."}), Plus(Chr(Digit))>>))>>)

\* \d+\.\d+(?:\.\d+)?
DottedVersionPat ==
  Cat(<<Plus(Chr(Digit)), Chr({"."}), Plus(Chr(Digit)),
        Opt(Cat(<<Chr({"."}), Plus(Chr(Digit))>>))>>)

\* \d+(?:\.\d+)?(?:\.\d+)?
ShortVersionPat ==
  Cat(<<Plus(Chr(Digit)), Opt(Cat(<<Chr({"."}), Plus(Chr(Digit))>>)),
        Opt(Cat(<<Chr({"."}), Plus(Chr(Digit))>>))>>)

\* (\d+\.(?:\d+|x)(?:\.\d+)?)\s*[-–]\s*(?:macOS\s+\w+\s+)?(\d+\.(?:\d+|x)(?:\.\d+)?)
RangePat ==
  Cat(<<Grp(1, VersionOrXPat), Star(Chr(White)), Chr({"-", "ndash"}), Star(Chr(White)),
        Opt(Cat(<<Lit(<<"m","a","c","O","S">>, FALSE), Plus(Chr(White)), Plus(Chr(Word)),
                  Plus(Chr(White))>>)),
        Grp(2, VersionOrXPat)>>)

parse_macos_versions(raw) ==
  LET text == clean_version_text(raw)
      range_match == Search(RangePat, text)
      versions == FindAll(Cat(<<WordB, Grp(1, DottedVersionPat), WordB>>), text)
      version_match == Search(Cat(<<WordB, Grp(1, VersionOrXPat), WordB>>), text)
  IN IF range_match.ok
     THEN Group(text, range_match, 1) \o <<" ", "-", " ">> \o Group(text, range_match, 2)
     ELSE IF Contains(Lower(text), <<"o","r"," ","l","a","t","e","r">>) /\ versions # <<>>
     THEN Append(Group(text, versions[1], 1), "+")
     ELSE IF version_match.ok THEN Group(text, version_match, 1)
     ELSE IF versions # <<>> THEN Group(text, versions[1], 1)
     ELSE <<>>

\* the platform names of the pattern, in the pattern's order
PlatformNames ==
  <<<<"i","O","S">>, <<"i","P","a","d","O","S">>, <<"m","a","c","O","S">>, <<"t","v","O","S">>,
    <<"w","a","t","c","h","O","S">>, <<"v","i","s","i","o","n","O","S">>,
    <<"D","r","i","v","e","r","K","i","t">>>>

\* (iOS|iPadOS|macOS|tvOS|watchOS|visionOS|DriverKit)\s+(\d+(?:\.\d+)?(?:\.\d+)?), re.IGNORECASE
SdkPat ==
  Cat(<<Grp(1, Alt([k \in DOMAIN PlatformNames |-> Lit(PlatformNames[k], TRUE)])),
        Plus(Chr(White)), Grp(2, ShortVersionPat)>>)

\* d[key] = value on a dict kept as the sequence of its <<key, value>> items:
\* a key already present keeps its place and takes the new value
DictSet(d, key, value) ==
  IF \E k \in DOMAIN d : d[k][1] = key
  THEN [k \in DOMAIN d |-> IF d[k][1] = key THEN <<key, value>> ELSE d[k]]
  ELSE Append(d, <<key, value>>)

\* the for loop of parse_sdk_column over the matches
RECURSIVE sdk_loop(_, _, _)
sdk_loop(text, matches, sdks) ==
  IF matches = <<>> THEN sdks
  ELSE LET platform == Group(text, Head(matches), 1)
           version == Group(text, Head(matches), 2)
           platform_key == StripWS(platform)
       IN sdk_loop(text, Tail(matches), DictSet(sdks, platform_key, version))

parse_sdk_column(raw) ==
  LET text == clean_version_text(raw)
  IN sdk_loop(text, FindAll(SdkPat, text), <<>>)

(***************************************************************************)
(* The parsed document.  soup is a sequence of sections (the children of   *)
(* the body), each a sequence of nodes in document order.  A node is       *)
(*   [name, class, child_ids, trs]                                         *)
(* child_ids: the ids carried by the node's children; trs: the rows of a   *)
(* table, each row a sequence of cells [tag, text], text being what        *)
(* get_text(" ", strip=True) returns for the cell.  A Tag is referred to   *)
(* by its path <<section, position>>.                                      *)
(***************************************************************************)
Node(path) == soup[path[1]][path[2]]

\* the nodes of one section, then of the next: document order
RECURSIVE DocOrder(_, _)
DocOrder(doc, sec) ==
  IF sec > Len(doc) THEN <<>>
  ELSE [k \in 1 .. Len(doc[sec]) |-> <<sec, k>>] \o DocOrder(doc, sec + 1)

\* None where a Tag is expected
NoTag == <<>>

\* the first element of a sequence of paths, or None
First(paths) == IF paths = <<>> THEN NoTag ELSE paths[1]

\* isinstance(sib, Tag) and sib.name == "table" and "wikitable" in sib.get("class", []);
\* also the filter of soup.find_all("table", class_="wikitable")
IsWikitable(node) == node.name = "table" /\ "wikitable" \in node.class

\* [th.get_text(" ", strip=True) for th in t.find_all("th")]
RECURSIVE ThTexts(_)
ThTexts(cells) ==
  IF cells = <<>> THEN <<>>
  ELSE (IF Head(cells).tag = "th" THEN <<Head(cells).text>> ELSE <<>>) \o ThTexts(Tail(cells))

RECURSIVE TableHeaders(_)
TableHeaders(trs) == IF trs = <<>> THEN <<>> ELSE ThTexts(Head(trs)) \o TableHeaders(Tail(trs))

OperatingSystem == <<"o","p","e","r","a","t","i","n","g"," ","s","y","s","t","e","m">>

SupportedSystems == <<"s","u","p","p","o","r","t","e","d"," ","s","y","s","t","e","m","s">>

\* any(h.startswith("operating system") ...) and any(h.startswith("supported systems") ...)
HasCompatHeaders(node) ==
  LET heads_lower == [k \in DOMAIN TableHeaders(node.trs) |-> Lower(TableHeaders(node.trs)[k])]
  IN /\ \E k \in DOMAIN heads_lower : StartsWith(heads_lower[k], OperatingSystem)
     /\ \E k \in DOMAIN heads_lower : StartsWith(heads_lower[k], SupportedSystems)

\* soup.find(id="Hardware_compatibility"): the first element carrying the id;
\* the value is the path of its parent
HardwareSectionParent(doc) ==
  First(SelectSeq(DocOrder(doc, 1),
                  LAMBDA p : "Hardware_compatibility" \in doc[p[1]][p[2]].child_ids))

\* for sib in node.next_siblings: the first wikitable among them
FollowingWikitable(doc, parent) ==
  IF parent = NoTag THEN NoTag
  ELSE First(SelectSeq(DocOrder(doc, 1),
                       LAMBDA p : p[1] = parent[1] /\ p[2] > parent[2]
                                  /\ IsWikitable(doc[p[1]][p[2]])))

\* the fallback loop: the first wikitable with both headers
HeaderWikitable(doc) ==
  First(SelectSeq(DocOrder(doc, 1),
                  LAMBDA p : IsWikitable(doc[p[1]][p[2]]) /\ HasCompatHeaders(doc[p[1]][p[2]])))

\* the two strategies tried in the other order
find_hardware_table_headers_first(doc) ==
  LET by_id == FollowingWikitable(doc, HardwareSectionParent(doc))
  IN IF HeaderWikitable(doc) # NoTag THEN HeaderWikitable(doc) ELSE by_id

\* the Tag find_hardware_table returns, or None when it raises
find_hardware_table(doc) ==
  LET by_id == FollowingWikitable(doc, HardwareSectionParent(doc))
  IN IF by_id # NoTag THEN by_id ELSE HeaderWikitable(doc)

\* the header loop stopping at the first match of each role
RECURSIVE compat_columns_first(_, _, _)
compat_columns_first(headers, k, acc) ==
  IF k > Len(headers) THEN acc
  ELSE LET hl == Lower(headers[k])
       IN compat_columns_first(headers, k + 1,
            [os |-> IF acc.os = None /\ StartsWith(hl, OperatingSystem) THEN k - 1 ELSE acc.os,
             sup |-> IF acc.sup = None /\ StartsWith(hl, SupportedSystems)
                     THEN k - 1 ELSE acc.sup])

\* the header loop of parse_table: idx_os and idx_sup after headers[0 .. k-1]
RECURSIVE compat_columns(_, _, _)
compat_columns(headers, k, acc) ==
  IF k > Len(headers) THEN acc
  ELSE LET hl == Lower(headers[k])
       IN compat_columns(headers, k + 1,
            [os |-> IF StartsWith(hl, OperatingSystem) THEN k - 1 ELSE acc.os,
             sup |-> IF StartsWith(hl, SupportedSystems) THEN k - 1 ELSE acc.sup])

Max(a, b) == IF a >= b THEN a ELSE b

\* the row loop of parse_table over table.find_all("tr")[1:]
RECURSIVE compat_rows(_, _)
compat_rows(trs, ix) ==
  IF trs = <<>> THEN <<>>
  ELSE LET cells == Head(trs)
           os_text == Join(<<" ">>, SplitWS(cells[ix.os + 1].text))
           sup_text == cells[ix.sup + 1].text
           raw_items == StripNonEmpty(Split(sup_text, ","), {","})
       IN (IF Len(cells) <= Max(ix.os, ix.sup) THEN <<>>
           ELSE <<[os |-> os_text, supported_systems |-> raw_items]>>)
          \o compat_rows(Tail(trs), ix)

\* one iteration of the loop of build_clean_json: the records it appends
build_clean_row(r) ==
  LET os_norm == normalize_os(StripWS(r.os))
  IN IF ~should_include_os(os_norm) THEN <<>>
     ELSE <<[os |-> os_norm,
             supported_systems |-> clean_supported_systems(r.supported_systems)]>>

(***************************************************************************)
(* macos_compat_scraper.py: the steps of main()                            *)
(***************************************************************************)
FindHardwareTable ==
  /\ pc = "compat.locate"
  /\ \/ /\ find_hardware_table(soup) # NoTag
        /\ table' = find_hardware_table(soup)
        /\ pc' = "compat.parse"
        /\ err' = err
     \/ /\ find_hardware_table(soup) = NoTag
        /\ pc' = "raised"
        /\ err' = "RuntimeError: Could not locate the 'Hardware compatibility' wikitable."
        /\ table' = table
  /\ UNCHANGED <<soup, idx, rows, out, rowno, arg, ret>>

CompatParseTable ==
  /\ pc = "compat.parse"
  /\ LET trs == Node(table).trs
         ix == compat_columns(TableHeaders(trs), 1, [os |-> None, sup |-> None])
     IN /\ idx' = ix
        /\ \/ /\ (ix.os = None \/ ix.sup = None)
              /\ pc' = "raised"
              /\ err' = "RuntimeError: Unexpected table headers"
              /\ rows' = rows
           \/ /\ ix.os # None /\ ix.sup # None
              /\ rows' = compat_rows(Tail(trs), ix)
              /\ pc' = "compat.clean"
              /\ err' = err
  /\ UNCHANGED <<soup, table, out, rowno, arg, ret>>

BuildCleanRow ==
  /\ pc = "compat.clean"
  /\ rowno < Len(rows)
  /\ rowno' = rowno + 1
  /\ out' = out \o build_clean_row(rows[rowno + 1])
  /\ UNCHANGED <<pc, soup, table, idx, rows, arg, ret, err>>

BuildCleanReturn ==
  /\ pc = "compat.clean"
  /\ rowno = Len(rows)
  /\ pc' = "done"
  /\ UNCHANGED <<soup, table, idx, rows, out, rowno, arg, ret, err>>

\* a direct call clean_supported_systems(arg)
CleanSupportedSystems ==
  /\ pc = "call.clean_supported_systems"
  /\ ret' = clean_supported_systems(arg)
  /\ pc' = "return"
  /\ UNCHANGED <<soup, table, idx, rows, out, rowno, arg, err>>

(***************************************************************************)
(* xcode_releases_scraper.py: parse_table                                  *)
(***************************************************************************)
\* the header loop of parse_table; headers are lower-cased already
RECURSIVE xcode_columns(_, _, _)
xcode_columns(headers, k, acc) ==
  IF k > Len(headers) THEN acc
  ELSE LET h == headers[k]
       IN xcode_columns(headers, k + 1,
            IF Contains(h, <<"x","c","o","d","e">>) THEN [acc EXCEPT !.xcode = k - 1]
            ELSE IF Contains(h, <<"m","a","c","o","s">>) \/ Contains(h, <<"m","i","n","i","m","u","m">>) \/ Contains(h, <<"o","s">>)
            THEN [acc EXCEPT !.macos = k - 1]
            ELSE IF Contains(h, <<"s","d","k">>) THEN [acc EXCEPT !.sdk = k - 1]
            ELSE acc)

\* max(filter(lambda x: x is not None, [idx_xcode, idx_macos, idx_sdk]))
MaxIndex(ix) == SetMax({x \in {ix.xcode, ix.macos, ix.sdk} : x # None})

\* the row loop of parse_table over table.find_all("tr")[1:]
RECURSIVE xcode_rows(_, _)
xcode_rows(trs, ix) ==
  IF trs = <<>> THEN <<>>
  ELSE LET cells == Head(trs)
           xcode_text == clean_version_text(cells[ix.xcode + 1].text)
           xcode_match == Search(Cat(<<WordB, Grp(1, ShortVersionPat), WordB>>), xcode_text)
           macos_version == IF ix.macos # None /\ ix.macos < Len(cells)
                            THEN parse_macos_versions(cells[ix.macos + 1].text) ELSE <<>>
           sdks == IF ix.sdk # None /\ ix.sdk < Len(cells)
                   THEN parse_sdk_column(cells[ix.sdk + 1].text) ELSE <<>>
       IN (IF Len(cells) <= MaxIndex(ix) THEN <<>>
           ELSE IF ~xcode_match.ok THEN <<>>
           ELSE <<[xcode_version |-> Group(xcode_text, xcode_match, 1),
                   macos_version |-> macos_version, sdks |-> sdks]>>)
          \o xcode_rows(Tail(trs), ix)

XcodeParseTable ==
  /\ pc = "xcode.parse"
  /\ LET trs == Node(table).trs
         headers == [k \in DOMAIN TableHeaders(trs) |-> Lower(TableHeaders(trs)[k])]
         ix == xcode_columns(headers, 1, [xcode |-> None, macos |-> None, sdk |-> None])
     IN /\ idx' = ix
        /\ \/ /\ ix.xcode = None
              /\ pc' = "raised"
              /\ err' = "RuntimeError: Could not find Xcode column in headers"
              /\ rows' = rows
           \/ /\ ix.xcode # None
              /\ rows' = xcode_rows(Tail(trs), ix)
              /\ pc' = "xcode.parsed"
              /\ err' = err
  /\ UNCHANGED <<soup, table, out, rowno, arg, ret>>

\* a direct call parse_macos_versions(arg)
ParseMacosVersions ==
  /\ pc = "call.parse_macos_versions"
  /\ ret' = parse_macos_versions(arg)
  /\ pc' = "return"
  /\ UNCHANGED <<soup, table, idx, rows, out, rowno, arg, err>>

\* a direct call parse_sdk_column(arg)
ParseSdkColumn ==
  /\ pc = "call.parse_sdk_column"
  /\ ret' = parse_sdk_column(arg)
  /\ pc' = "return"
  /\ UNCHANGED <<soup, table, idx, rows, out, rowno, arg, err>>

(***************************************************************************)
(* Inputs.  T_... are cell texts; the tables and documents below are the   *)
(* pages the runs start from.                                              *)
(***************************************************************************)
T_OperatingSystem == <<"O","p","e","r","a","t","i","n","g"," ","s","y","s","t","e","m">>

T_SupportedSystems == <<"S","u","p","p","o","r","t","e","d"," ","s","y","s","t","e","m","s">>

T_OperatingSystemNote == <<"O","p","e","r","a","t","i","n","g"," ","S","y","s","t","e","m"," ","(","v","e","r","s","i","o","n",")">>

T_Version == <<"V","e","r","s","i","o","n">>

T_Release == <<"R","e","l","e","a","s","e">>

T_MountainLion == <<"m","a","c","O","S"," ","1","0",".","8"," ","M","o","u","n","t","a","i","n"," ","L","i","o","n">>

T_Sys_MountainLion == <<"M","a","c","B","o","o","k"," ","(","L","a","t","e"," ","2","0","0","8"," ","o","r"," ","l","a","t","e","r",")",","," ","M","a","c","B","o","o","k"," ","A","i","r",","," ","a","n","d"," ","M","a","c","B","o","o","k"," ","P","r","o">>

T_10_7 == <<"1","0",".","7">>

T_9_9 == <<"9",".","9">>

T_11_0 == <<"1","1",".","0">>

T_10_8 == <<"1","0",".","8">>

T_26 == <<"2","6">>

T_macOS11 == <<"m","a","c","O","S","1","1">>

T_MacOSX == <<"M","a","c"," ","O","S"," ","X">>

T_Range == <<"1","0",".","8"," ","ndash"," ","1","0",".","1","1">>

T_OldRange == <<"m","a","c","O","S"," ","1","0",".","0"," ","ndash"," ","1","0",".","2">>

T_BigSur == <<"m","a","c","O","S"," ","1","1"," ","B","i","g"," ","S","u","r">>

T_Sys_Labels == <<"L","a","p","t","o","p","s"," ",":"," ","M","a","c","B","o","o","k"," ","A","i","r"," ","(","M","1"," ","o","r"," ","l","a","t","e","r",")"," ","D","e","s","k","t","o","p","s"," ",":"," ","M","a","c"," ","M","i","n","i"," ","(","M","1"," ","o","r"," ","l","a","t","e","r",")">>

T_Sys_Dup == <<"M","a","c"," ","M","i","n","i",","," ","M","a","c"," ","M","i","n","i">>

T_Sys_And == <<"i","M","a","c"," ","(","2","0","2","0"," ","o","r"," ","l","a","t","e","r",")"," ","a","n","d"," ","M","a","c"," ","P","r","o"," ","(","2","0","1","9"," ","o","r"," ","l","a","t","e","r",")">>

T_Sys_iMac == <<"i","M","a","c">>

T_MacPro == <<"M","a","c"," ","P","r","o">>

T_And == <<"a","n","d">>

T_AndMacPro == <<"a","n","d"," ","M","a","c"," ","P","r","o">>

T_Sys_Messy == <<"i","M","a","c"," "," ","D","e","s","k","t","o","p",":","M","a","c"," ","P","r","o",","," "," ","A","N","D"," ",",">>

T_imac == <<"i","m","a","c">>

T_Sys_ShortAnd == <<"i","M","a","c"," ","a","n","d"," ","M","a","c"," ","P","r","o">>

T_iMac2020 == <<"i","M","a","c"," ","(","2","0","2","0"," ","o","r"," ","l","a","t","e","r",")">>

T_MacPro2019 == <<"M","a","c"," ","P","r","o"," ","(","2","0","1","9"," ","o","r"," ","l","a","t","e","r",")">>

T_MacBook2008 == <<"M","a","c","B","o","o","k"," ","(","L","a","t","e"," ","2","0","0","8"," ","o","r"," ","l","a","t","e","r",")">>

T_MacBookAir == <<"M","a","c","B","o","o","k"," ","A","i","r">>

T_MacBookPro == <<"M","a","c","B","o","o","k"," ","P","r","o">>

T_SpaceAndSpace == <<" ","a","n","d"," ">>

T_iOSSDK == <<"i","O","S"," ","S","D","K">>

T_XcodeVersion == <<"X","c","o","d","e"," ","V","e","r","s","i","o","n">>

T_MinimumOS == <<"M","i","n","i","m","u","m"," ","O","S"," ","R","e","q","u","i","r","e","d">>

T_SDK == <<"S","D","K">>

T_macOS == <<"m","a","c","O","S">>

T_Xcode15 == <<"X","c","o","d","e"," ","1","5",".","0">>

T_Xcode16_4 == <<"X","c","o","d","e"," ","1","6",".","4">>

T_XcodeBeta == <<"X","c","o","d","e"," ","b","e","t","a">>

T_Req14 == <<"m","a","c","O","S"," ","S","o","n","o","m","a"," ","1","4",".","0"," ","o","r"," ","l","a","t","e","r">>

T_Req13_5 == <<"m","a","c","O","S"," ","V","e","n","t","u","r","a"," ","1","3",".","5">>

T_Sdk17 == <<"i","O","S"," ","1","7",".","0",","," ","m","a","c","O","S"," ","1","4",".","0">>

T_Sdk16 == <<"i","O","S"," ","1","6">>

T_macOSSonoma == <<"m","a","c","O","S"," ","S","o","n","o","m","a"," ">>

T_macOSSequoia == <<"m","a","c","O","S"," ","S","e","q","u","o","i","a"," ">>

T_macOSBigSur == <<"m","a","c","O","S"," ","B","i","g"," ","S","u","r"," ">>

T_14_5 == <<"1","4",".","5">>

T_15_x == <<"1","5",".","x">>

T_10_15_4 == <<"1","0",".","1","5",".","4">>

T_11_7_1 == <<"1","1",".","7",".","1">>

T_13 == <<"1","3">>

T_Hyphen == <<" ","-"," ">>

T_TightHyphen == <<"-">>

T_EnDash == <<" ","ndash"," ">>

T_EmDash == <<"mdash">>

T_OrLater == <<" ","o","r"," ","l","a","t","e","r">>

T_iOS == <<"i","O","S">>

T_ios == <<"i","o","s">>

T_IOS == <<"I","O","S">>

T_DriverKit == <<"D","r","i","v","e","r","K","i","t">>

T_Space == <<" ">>

T_CommaSpace == <<","," ">>

T_17_0 == <<"1","7",".","0">>

T_16 == <<"1","6">>

T_Nbsp == <<"nbsp">>

SeqsUpTo(S, n) == UNION {[1 .. k -> S] : k \in 0 .. n}

Th(text) == [tag |-> "th", text |-> text]

Td(text) == [tag |-> "td", text |-> text]

TableNode(class, trs) == [name |-> "table", class |-> class, child_ids |-> {}, trs |-> trs]

\* <div class="mw-heading"><h2 id="Hardware_compatibility">...</h2></div>
Anchor ==
  [name |-> "div", class |-> {"mw-heading"}, child_ids |-> {"Hardware_compatibility"},
   trs |-> <<>>]

\* stands for the end of a section in a flat listing of a document
SectionBreak == [name |-> "/section", class |-> {}, child_ids |-> {}, trs |-> <<>>]

CompatHeaderRow == <<Th(T_OperatingSystem), Th(T_SupportedSystems)>>

CompatWikitable ==
  TableNode({"wikitable"}, <<CompatHeaderRow, <<Td(T_11_0), Td(T_Sys_iMac)>>>>)

CompatWikitableNote ==
  TableNode({"wikitable", "sortable"},
            <<<<Th(T_Version), Th(T_OperatingSystemNote), Th(T_SupportedSystems)>>>>)

OsOnlyWikitable == TableNode({"wikitable"}, <<<<Th(T_OperatingSystem), Th(T_Release)>>>>)

OtherWikitable == TableNode({"wikitable"}, <<<<Th(T_Version), Th(T_Release)>>>>)

PlainCompatTable == TableNode({}, <<CompatHeaderRow>>)

LocateNodes ==
  {Anchor, SectionBreak, CompatWikitable, CompatWikitableNote, OsOnlyWikitable,
   OtherWikitable, PlainCompatTable}

\* the document a flat listing stands for
RECURSIVE Sections(_, _)
Sections(flat, cur) ==
  IF flat = <<>> THEN <<cur>>
  ELSE IF Head(flat) = SectionBreak THEN <<cur>> \o Sections(Tail(flat), <<>>)
  ELSE Sections(Tail(flat), Append(cur, Head(flat)))

MaxNodes == 4

LocateDocs == {Sections(flat, <<>>) : flat \in SeqsUpTo(LocateNodes, MaxNodes)}

CompatRowPool ==
  {<<Td(T_MountainLion), Td(T_Sys_MountainLion)>>,
   <<Td(T_10_7), Td(T_Sys_iMac)>>,
   <<Td(T_9_9), Td(T_Sys_Dup)>>,
   <<Td(T_11_0), Td(T_Sys_Labels)>>,
   <<Td(T_10_8), Td(T_Sys_And)>>,
   <<Td(T_26), Td(T_Sys_Labels)>>,
   <<Td(T_macOS11), Td(T_Sys_iMac)>>,
   <<Td(T_MacOSX), Td(T_Sys_iMac)>>,
   <<Td(T_Range), Td(T_Sys_Dup)>>,
   <<Td(T_OldRange), Td(T_Sys_iMac)>>,
   <<Th(T_BigSur), Td(T_Sys_And)>>,
   <<Td(T_26)>>}

MaxRows == 2

OsAlphabet == {"1", "0", "8", ".", "ndash", "v"}

MaxOsLen == 4

\* cell texts come stripped out of get_text(" ", strip=True)
OsTexts == {s \in SeqsUpTo(OsAlphabet, MaxOsLen) : StripWS(s) = s}

CompatTables ==
  {<<CompatHeaderRow>> \o trs : trs \in SeqsUpTo(CompatRowPool, MaxRows)}
  \cup {<<CompatHeaderRow, <<Td(os), Td(T_Sys_iMac)>>>> : os \in OsTexts}

CompatDocs ==
  {<<<<Anchor, TableNode({"wikitable"}, trs)>>>> : trs \in CompatTables}
  \cup {<<<<Anchor>>>>, <<<<Anchor, OtherWikitable>>>>}

FragmentPool ==
  {T_Sys_iMac, T_MacPro, T_Sys_And, T_And, T_AndMacPro, T_Sys_Dup, T_Sys_Labels,
   T_Sys_Messy, T_imac, T_Sys_ShortAnd}

MaxFragments == 2

HeaderPool ==
  {T_OperatingSystemNote, T_SupportedSystems, T_XcodeVersion, T_MinimumOS, T_SDK,
   T_iOSSDK}

MaxHeaders == 3

\* the data rows under every header row: a full row, a row of one cell, a row of
\* two cells and a row whose first cell holds no version
DataRows ==
  <<<<Td(T_Xcode15), Td(T_Req14), Td(T_Sdk17)>>,
    <<Td(T_Xcode16_4)>>,
    <<Td(T_11_0), Td(T_Sys_iMac)>>,
    <<Td(T_XcodeBeta), Td(T_Req13_5), Td(T_Sdk16)>>>>

HeaderRows == {[k \in DOMAIN hs |-> Th(hs[k])] : hs \in SeqsUpTo(HeaderPool, MaxHeaders)}

\* the texts "<start> <dash> [macOS <codename> ]<end>", with or without words before
RangeForms ==
  {<<prefix, start, dash, codename, end>> :
     prefix \in {<<>>, T_macOSSonoma}, start \in {T_14_5, T_15_x, T_10_15_4},
     dash \in {T_Hyphen, T_TightHyphen, T_EnDash, T_EmDash},
     codename \in {<<>>, T_macOSSequoia, T_macOSBigSur}, end \in {T_15_x, T_11_7_1}}

Concat(form) == form[1] \o form[2] \o form[3] \o form[4] \o form[5]

ReqPieces ==
  {T_macOSSonoma, T_macOSBigSur, T_14_5, T_15_x, T_13, T_Hyphen, T_EnDash, T_OrLater,
   T_Nbsp}

MaxReqPieces == 3

RECURSIVE Flatten(_)
Flatten(parts) == IF parts = <<>> THEN <<>> ELSE Head(parts) \o Flatten(Tail(parts))

ReqTexts ==
  {Concat(form) : form \in RangeForms}
  \cup {Flatten(parts) : parts \in SeqsUpTo(ReqPieces, MaxReqPieces)}

SdkPieces == {T_iOS, T_ios, T_IOS, T_macOS, T_DriverKit, T_Space, T_CommaSpace, T_17_0, T_16}

MaxSdkPieces == 4

SdkTexts == {Flatten(parts) : parts \in SeqsUpTo(SdkPieces, MaxSdkPieces)}

Idle ==
  /\ table = NoTag /\ idx = <<>> /\ rows = <<>> /\ out = <<>> /\ rowno = 0
  /\ arg = <<>> /\ ret = <<>> /\ err = ""

(***************************************************************************)
(* Specifications                                                          *)
(***************************************************************************)
\* the table locator on documents of every shape
InitLocate == pc = "compat.locate" /\ soup \in LocateDocs /\ Idle

NextLocate == FindHardwareTable

SpecLocate == InitLocate /\ [][NextLocate]_vars

\* the macOS pipeline, from the parsed page to the records written
Init == pc = "compat.locate" /\ soup \in CompatDocs /\ Idle

Next == FindHardwareTable \/ CompatParseTable \/ BuildCleanRow \/ BuildCleanReturn

Spec == Init /\ [][Next]_vars

\* clean_supported_systems called on lists of raw fragments
InitSplit ==
  /\ pc = "call.clean_supported_systems" /\ soup = <<>> /\ table = NoTag /\ idx = <<>>
  /\ rows = <<>> /\ out = <<>> /\ rowno = 0 /\ ret = <<>> /\ err = ""
  /\ arg \in SeqsUpTo(FragmentPool, MaxFragments)

NextSplit == CleanSupportedSystems

SpecSplit == InitSplit /\ [][NextSplit]_vars

\* parse_table of either scraper on tables with every header row
InitTables ==
  /\ pc \in {"compat.parse", "xcode.parse"}
  /\ soup \in {<<<<TableNode({}, <<hr>> \o DataRows)>>>> : hr \in HeaderRows}
  /\ table = <<1, 1>>
  /\ idx = <<>> /\ rows = <<>> /\ out = <<>> /\ rowno = 0
  /\ arg = <<>> /\ ret = <<>> /\ err = ""

NextTables == CompatParseTable \/ XcodeParseTable

SpecTables == InitTables /\ [][NextTables]_vars

\* parse_macos_versions called on requirement texts
InitReq ==
  /\ pc = "call.parse_macos_versions" /\ soup = <<>> /\ table = NoTag /\ idx = <<>>
  /\ rows = <<>> /\ out = <<>> /\ rowno = 0 /\ ret = <<>> /\ err = ""
  /\ arg \in ReqTexts

NextReq == ParseMacosVersions

SpecReq == InitReq /\ [][NextReq]_vars

\* parse_sdk_column called on SDK cell texts
InitSdk ==
  /\ pc = "call.parse_sdk_column" /\ soup = <<>> /\ table = NoTag /\ idx = <<>>
  /\ rows = <<>> /\ out = <<>> /\ rowno = 0 /\ ret = <<>> /\ err = ""
  /\ arg \in SdkTexts

NextSdk == ParseSdkColumn

SpecSdk == InitSdk /\ [][NextSdk]_vars

(***************************************************************************)
(* Properties                                                              *)
(***************************************************************************)
\* document order of two paths
Before(p, q) == p[1] < q[1] \/ (p[1] = q[1] /\ p[2] < q[2])

AllPaths == UNION {{<<sec, k>> : k \in DOMAIN soup[sec]} : sec \in DOMAIN soup}

Earliest(P) == CHOOSE p \in P : \A q \in P : p = q \/ Before(p, q)

HasHeaderStarting(node, prefix) ==
  \E r \in DOMAIN node.trs : \E c \in DOMAIN node.trs[r] :
    node.trs[r][c].tag = "th" /\ StartsWith(Lower(node.trs[r][c].text), prefix)

WikitablePaths == {p \in AllPaths : Node(p).name = "table" /\ "wikitable" \in Node(p).class}

MatchingWikitables ==
  {p \in WikitablePaths : /\ HasHeaderStarting(Node(p), OperatingSystem)
                          /\ HasHeaderStarting(Node(p), SupportedSystems)}

AnchorParents == {p \in AllPaths : "Hardware_compatibility" \in Node(p).child_ids}

SiblingWikitables ==
  IF AnchorParents = {} THEN {}
  ELSE {p \in WikitablePaths : /\ p[1] = Earliest(AnchorParents)[1]
                               /\ p[2] > Earliest(AnchorParents)[2]}

\* C10: once find_hardware_table has run, (a) the first wikitable following the
\* parent of the Hardware_compatibility element was returned if there is one,
\* whatever other tables precede it; (b) otherwise the first wikitable in document
\* order with both headers; (c) otherwise RuntimeError was raised and no table
\* was returned.
C10_LocatorOrder ==
  pc # "compat.locate" =>
    IF SiblingWikitables # {}
    THEN pc = "compat.parse" /\ table = Earliest(SiblingWikitables)
    ELSE IF MatchingWikitables # {}
    THEN pc = "compat.parse" /\ table = Earliest(MatchingWikitables)
    ELSE pc = "raised" /\ table = NoTag /\ err # ""

\* strategy (a) won although a wikitable with both headers comes earlier in the page
C10_Witness ==
  /\ pc = "compat.parse"
  /\ \E p \in MatchingWikitables : Before(p, table)
  /\ ~ HasHeaderStarting(Node(table), OperatingSystem)

\* the first major(.minor)? token of a string, read without the pattern matcher
DigitRunEnd(s, from) ==
  SetMin({e \in from .. Len(s) : e = Len(s) \/ s[e + 1] \notin Digit})

FirstDigit(s) == SetMin({k \in DOMAIN s : s[k] \in Digit})

MajorOf(s) == ToInt(SubSeq(s, FirstDigit(s), DigitRunEnd(s, FirstDigit(s))))

MinorOf(s) ==
  LET e == DigitRunEnd(s, FirstDigit(s))
  IN IF e + 2 <= Len(s) /\ s[e + 1] = "." /\ s[e + 2] \in Digit
     THEN ToInt(SubSeq(s, e + 2, DigitRunEnd(s, e + 2)))
     ELSE 0

MeetsThreshold(s) ==
  /\ \E k \in DOMAIN s : s[k] \in Digit
  /\ (MajorOf(s) >= 11 \/ (MajorOf(s) = 10 /\ MinorOf(s) >= 8))

\* the normalized os of every raw row
NormalizedOs == [k \in DOMAIN rows |-> normalize_os(StripWS(rows[k].os))]

\* the rows seen so far whose normalized os meets the threshold, in row order
KeptRows == Sorted({k \in 1 .. rowno : MeetsThreshold(NormalizedOs[k])})

\* C4: should_include_os is the threshold major >= 11 or (major = 10 and minor >= 8)
\* on the first major(.minor)? token, false without a digit; build_clean_json
\* emits a record for exactly the rows whose normalized os meets it, in row order.
C4_InclusionFilter ==
  pc \in {"compat.clean", "done"} =>
    /\ \A k \in DOMAIN rows : should_include_os(NormalizedOs[k]) = MeetsThreshold(NormalizedOs[k])
    /\ Len(out) = Len(KeptRows)
    /\ \A j \in DOMAIN out :
         /\ out[j].os = NormalizedOs[KeptRows[j]]
         /\ MeetsThreshold(out[j].os)

\* a 10.7 row was dropped and the 10.8 row after it was kept
C4_Witness ==
  /\ pc = "done"
  /\ Len(rows) = 2
  /\ rows[1].os = T_10_7
  /\ Len(out) = 1
  /\ out[1].os = T_10_8

\* digits(.digits)*, or two of them joined by a dash-like separator
IsCanonicalVersion(s) ==
  FullMatch(Cat(<<VersionPat,
                  Opt(Cat(<<Star(Chr(White)), Chr(Dashes), Star(Chr(White)), VersionPat>>))>>),
            s).ok

\* C5: the os of every emitted record is a canonical version or version range.
C5_CanonicalOs == \A j \in DOMAIN out : IsCanonicalVersion(out[j].os)

\* C1: the table with the single row "macOS 10.8 Mountain Lion" /
\* "MacBook (Late 2008 or later), MacBook Air, and MacBook Pro" yields exactly the
\* record 10.8 with the three model names, "and" removed.
C1_EndToEnd ==
  (pc = "done" /\ Node(table).trs = <<CompatHeaderRow,
                                      <<Td(T_MountainLion), Td(T_Sys_MountainLion)>>>>)
    => out = <<[os |-> T_10_8,
                supported_systems |-> <<T_MacBook2008, T_MacBookAir, T_MacBookPro>>]>>

\* C2: a fragment "A and B" without comma or label gives the two entries A and B.
C2_AndSplits ==
  \A names \in {<<T_Sys_iMac, T_MacPro>>, <<T_iMac2020, T_MacPro2019>>} :
    (pc = "return" /\ arg = <<names[1] \o T_SpaceAndSpace \o names[2]>>)
      => ret = <<names[1], names[2]>>

\* position of the first occurrence of x in xs
FirstIndex(xs, x) == SetMin({k \in DOMAIN xs : xs[k] = x})

\* C3: the list clean_supported_systems returns has no two equal strings, holds
\* exactly the cleaned tokens, and orders them by first occurrence.
C3_UniqueFirstSeen ==
  pc = "return" =>
    LET tokens == clean_items(arg)
        first == [k \in DOMAIN ret |-> FirstIndex(tokens, ret[k])]
    IN /\ \A j, k \in DOMAIN ret : j # k => ret[j] # ret[k]
       /\ Range(ret) = Range(tokens)
       /\ \A j, k \in DOMAIN ret : j < k => first[j] < first[k]

\* a repeated token was dropped from between two others
C3_Witness ==
  /\ pc = "return"
  /\ Len(ret) >= 2
  /\ LET tokens == clean_items(arg)
     IN \E k \in DOMAIN tokens :
          /\ k > FirstIndex(tokens, tokens[k])
          /\ k < Len(tokens)
          /\ tokens[Len(tokens)] # tokens[k]

\* C6: every key parse_sdk_column returns is one of the seven canonical spellings,
\* whatever the letter case of the platform name in the text.
C6_CanonicalKeys ==
  pc = "return" => \A k \in DOMAIN ret : ret[k][1] \in Range(PlatformNames)

\* C7: a text "<start> <dash> [macOS <codename> ]<end>" gives "<start> - <end>",
\* whatever precedes it and however many words the codename has.
C7_RangeRule ==
  \A form \in RangeForms :
    (pc = "return" /\ arg = Concat(form)) => ret = form[2] \o <<" ", "-", " ">> \o form[5]

\* the lower-cased header texts of the table parse_table was given
LowerHeaders ==
  [k \in DOMAIN TableHeaders(Node(table).trs) |-> Lower(TableHeaders(Node(table).trs)[k])]

OsRule(h) == StartsWith(h, OperatingSystem)

SupRule(h) == StartsWith(h, SupportedSystems)

XcodeRule(h) == Contains(h, <<"x","c","o","d","e">>)

ReqRule(h) ==
  \/ Contains(h, <<"m","a","c","o","s">>)
  \/ Contains(h, <<"m","i","n","i","m","u","m">>)
  \/ Contains(h, <<"o","s">>)

SdkRule(h) == Contains(h, <<"s","d","k">>)

\* the 0-based index of the first / last header satisfying a rule, or None
FirstHeader(Rule(_)) ==
  IF \E k \in DOMAIN LowerHeaders : Rule(LowerHeaders[k])
  THEN SetMin({k \in DOMAIN LowerHeaders : Rule(LowerHeaders[k])}) - 1 ELSE None

LastHeader(Rule(_)) ==
  IF \E k \in DOMAIN LowerHeaders : Rule(LowerHeaders[k])
  THEN SetMax({k \in DOMAIN LowerHeaders : Rule(LowerHeaders[k])}) - 1 ELSE None

ReqOnly(h) == ~XcodeRule(h) /\ ReqRule(h)

SdkOnly(h) == ~XcodeRule(h) /\ ~ReqRule(h) /\ SdkRule(h)

CompatParsed == idx # <<>> /\ "os" \in DOMAIN idx

XcodeParsed == idx # <<>> /\ "xcode" \in DOMAIN idx

\* a data row has a cell at the Xcode column and that cell holds a version
HasXcodeVersion(cells) ==
  /\ Len(cells) > idx.xcode
  /\ Search(Cat(<<WordB, ShortVersionPat, WordB>>),
            clean_version_text(cells[idx.xcode + 1].text)).ok

XcodeVersionOf(cells) ==
  LET text == clean_version_text(cells[idx.xcode + 1].text)
      m == Search(Cat(<<WordB, ShortVersionPat, WordB>>), text)
  IN Slice(text, m.start, m.end)

EligibleRows == SelectSeq(Tail(Node(table).trs), HasXcodeVersion)

\* C8: only the Xcode column is required: every data row with a parseable cell at
\* the Xcode column gives a record, with "" and {} for cells the row lacks; without
\* an "xcode" header parse_table raises and yields nothing.
C8_OnlyXcodeRequired ==
  XcodeParsed =>
    IF idx.xcode = None THEN pc = "raised" /\ rows = <<>>
    ELSE /\ pc = "xcode.parsed"
         /\ Len(rows) = Len(EligibleRows)
         /\ \A k \in DOMAIN rows :
              /\ rows[k].xcode_version = XcodeVersionOf(EligibleRows[k])
              /\ (idx.macos = None \/ idx.macos >= Len(EligibleRows[k]))
                   => rows[k].macos_version = <<>>
              /\ (idx.sdk = None \/ idx.sdk >= Len(EligibleRows[k])) => rows[k].sdks = <<>>

\* C9 as stated: for each role the first header satisfying the role's rule is chosen.
C9_FirstHeaderWins ==
  /\ CompatParsed => idx.os = FirstHeader(OsRule) /\ idx.sup = FirstHeader(SupRule)
  /\ XcodeParsed => /\ idx.xcode = FirstHeader(XcodeRule)
                    /\ idx.macos = FirstHeader(ReqRule)
                    /\ idx.sdk = FirstHeader(SdkRule)

\* C9 as amended: for each role the last header satisfying the role's rule is
\* chosen, a later match replacing an earlier one; in the Xcode table a header
\* counts only for the first of the roles version, requirement, SDK it satisfies.
C9_LastHeaderWins ==
  /\ CompatParsed => idx.os = LastHeader(OsRule) /\ idx.sup = LastHeader(SupRule)
  /\ XcodeParsed => /\ idx.xcode = LastHeader(XcodeRule)
                    /\ idx.macos = LastHeader(ReqOnly)
                    /\ idx.sdk = LastHeader(SdkOnly)

\* two headers satisfy the operating-system rule and the later one was chosen
C9_Witness ==
  /\ CompatParsed
  /\ FirstHeader(OsRule) # None
  /\ idx.os # FirstHeader(OsRule)
  /\ idx.os = LastHeader(OsRule)

====
